---- MODULE Spec2Model ----
(***************************************************************************)
(* Model of awbw-notifications (src/src/main.rs): one POST /run trigger    *)
(* loads the persisted State from the bucket, fetches the "your turn" page *)
(* (logging in once if needed), extracts (count, ids), computes the        *)
(* signature, decides `changed`, writes the State back and, if changed,    *)
(* posts a message to the Discord webhook.                                 *)
(***************************************************************************)
EXTENDS Integers, Sequences, FiniteSets, TLC

VARIABLES
    store,      \* the state object in the bucket: <<>> (no object) or <<State>>
    env,        \* process environment: which variables are set
    run,        \* per trigger: position in run() and its locals
    persisted,  \* history: signatures written to the bucket so far
    owed,       \* history: signatures whose change was detected and not yet delivered
    call        \* harness for the pure functions: inputs and result

vars == <<store, env, run, persisted, owed, call>>

-----------------------------------------------------------------------------
(* Bounds of the model *)

\* u32 is modelled with CountBits bits (TLC integers are 32-bit signed)
CountBits == 2
\* longest id list given to build_discord_message in MsgSpec
MaxMsgIds == 7
\* largest count given to build_discord_message in MsgSpec
MaxMsgCount == 2
\* most links in a page given to extract_turn_info, most ids given to
\* make_signature, in the specifications of the pure functions
MaxLinks == 3
\* largest count given to make_signature in SigSpec
MaxSigCount == 2

U32Modulus == 2 ^ CountBits
U32Max == U32Modulus - 1

\* number of triggers that may be in flight; the sequential specification
\* uses trigger 1 only
RunIds == {1, 2}
SeqRuns == {1}

-----------------------------------------------------------------------------
(* Option and Result *)

None == <<>>
Some(x) == <<x>>
unwrap_or(opt, d) == IF opt = None THEN d ELSE opt[1]

Ok(v) == [ok |-> TRUE, val |-> Some(v)]
Err(reason) == [ok |-> FALSE, err |-> reason]

-----------------------------------------------------------------------------
(* Pages *)

\* a label that does not occur in the page
Absent == -1

\* what the two label patterns and the link pattern can see of a page body
Page(t, s, l) == [marker |-> FALSE, turn |-> t, start |-> s, links |-> l]

\* the body served to a client without a valid session
LoginRequired == [marker |-> TRUE, turn |-> Absent, start |-> Absent, links |-> <<>>]

\* pages the site renders to a logged-in client in the run specifications
SitePages ==
    { Page(Absent, Absent, <<>>),
      Page(1, Absent, <<1>>),
      Page(2, Absent, <<2, 1, 2>>),
      Page(2, 1, <<1, 2>>),
      Page(U32Max, 1, <<>>) }

-----------------------------------------------------------------------------
(* Fingerprint extractor *)

\* regex_capture_u32: the digits of the label parsed as u32
regex_capture_u32(label) ==
    IF label = Absent \/ label > U32Max THEN None ELSE Some(label)

\* the ids captured by the link pattern, in page order, unparsable ones skipped
RECURSIVE captured_ids(_)
captured_ids(links) ==
    IF links = <<>> THEN <<>>
    ELSE IF Head(links) >= 0 /\ Head(links) <= U32Max
         THEN <<Head(links)>> \o captured_ids(Tail(links))
         ELSE captured_ids(Tail(links))

unsorted(s) == s

sort_unstable(s) == SortSeq(s, <)

\* Vec::dedup: removes consecutive repeated elements
RECURSIVE dedup(_)
dedup(s) ==
    IF Len(s) <= 1 THEN s
    ELSE IF s[1] = s[2] THEN dedup(Tail(s))
         ELSE <<s[1]>> \o dedup(Tail(s))

\* turn_count + start_count on u32: overflow panics when overflow checks are
\* compiled in and wraps otherwise
add_u32(a, b) ==
    IF a + b <= U32Max THEN {[panic |-> FALSE, val |-> a + b]}
    ELSE {[panic |-> TRUE, val |-> 0], [panic |-> FALSE, val |-> (a + b) % U32Modulus]}

\* extract_turn_info: the outcomes the build can produce
extract_turn_info(html) ==
    LET turn_count == unwrap_or(regex_capture_u32(html.turn), 0)
        start_count == unwrap_or(regex_capture_u32(html.start), 0)
        ids == dedup(sort_unstable(captured_ids(html.links)))
    IN  { [panic |-> c.panic, count |-> c.val, ids |-> ids] :
            c \in add_u32(turn_count, start_count) }

RECURSIVE join_no_separator(_)
join_no_separator(ids) ==
    IF Len(ids) = 1 THEN ToString(ids[1])
    ELSE ToString(ids[1]) \o join_no_separator(Tail(ids))

RECURSIVE join_comma(_)
join_comma(ids) ==
    IF Len(ids) = 1 THEN ToString(ids[1])
    ELSE ToString(ids[1]) \o "," \o join_comma(Tail(ids))

\* SHA-256 in lowercase hex, modelled as an injective tagging of its input
\* (never the empty string)
sha256_hex(source) == "sha256(" \o source \o ")"

make_signature_no_prefix(count, ids) ==
    sha256_hex(IF ids # <<>> THEN join_comma(ids) ELSE ToString(count))

make_signature(count, ids) ==
    LET source == IF ids # <<>> THEN join_comma(ids)
                  ELSE "count:" \o ToString(count)
    IN  sha256_hex(source)

-----------------------------------------------------------------------------
(* Change detector *)

ChangedNoBootstrapGuard(stored_sig, sig) == stored_sig # sig

ChangedIgnoringNew(stored_sig, sig) == stored_sig # ""

\* line 101: let changed = !state.sig.is_empty() && state.sig != sig
Changed(stored_sig, sig) == stored_sig # "" /\ stored_sig # sig

-----------------------------------------------------------------------------
(* Notifier *)

TakeLinks == 5

TakeOneMore(s, n) == SubSeq(s, 1, IF Len(s) < n + 1 THEN Len(s) ELSE n + 1)

\* Iterator::take
Take(s, n) == SubSeq(s, 1, IF Len(s) < n THEN Len(s) ELSE n)

\* the message as the sequence of its parts; the parts after the first are
\* joined with the separator
NoPendingMessage == << [part |-> "no_pending"] >>
Header(count) == [part |-> "header", count |-> count]
Link(id) == [part |-> "link", id |-> id]
More(k) == [part |-> "more", k |-> k]

build_discord_message(count, ids) ==
    IF count = 0 /\ Len(ids) = 0 THEN NoPendingMessage
    ELSE LET shown == Take(ids, TakeLinks)
             links == [i \in 1..Len(shown) |-> Link(shown[i])]
             s1 == <<Header(count)>>
             s2 == IF links # <<>> THEN s1 \o links ELSE s1
         IN  IF Len(ids) > TakeLinks THEN Append(s2, More(Len(ids) - TakeLinks)) ELSE s2

-----------------------------------------------------------------------------
(* State store adapter *)

\* struct State with #[derive(Default)]
DefaultState == [sig |-> "", count |-> None, cookies_json |-> None]

gcs_read_state_strict(answer, object) ==
    IF answer = "ok" THEN Ok(object[1]) ELSE Err("gcs read failed")

\* gcs_read_state: what the bucket answers decides the result
gcs_read_state(answer, object) ==
    CASE answer = "not_found" -> Ok(DefaultState)
      [] answer = "ok" -> Ok(object[1])
      [] OTHER -> Err("gcs read failed")

\* the answers the bucket can give to a read
ReadAnswers == IF store = None THEN {"not_found", "error"} ELSE {"ok", "error"}

\* Result::unwrap_or_default at line 63
unwrap_or_default(res) == IF res.ok THEN res.val[1] ELSE DefaultState

\* cookie jar: the set of cookies it holds
EmptyJar == {}
SessionJar == {"PHPSESSID"}

save_cookie_store_json(jar) == IF jar = {} THEN "[]" ELSE "[PHPSESSID]"

\* lines 65-69: json::load of the persisted jar, default jar on failure
load_jar(cookies_json) ==
    IF cookies_json = None THEN EmptyJar
    ELSE IF cookies_json[1] = "[PHPSESSID]" THEN SessionJar ELSE EmptyJar

-----------------------------------------------------------------------------
(* Trigger *)

RunResponse(changed, count, logged_in, posted) ==
    [ok |-> TRUE, changed |-> changed, count |-> count,
     logged_in |-> logged_in, posted |-> posted]

\* no answer yet
NoResponse == [status |-> 0, body |-> None]

\* a panic in the handler task: the connection is closed without an answer
ConnectionClosed == [status |-> -1, body |-> None]

\* run_handler: 200 with the JSON of the result, or an empty 500
run_handler(res) ==
    IF res.ok THEN [status |-> 200, body |-> res.val]
    ELSE [status |-> 500, body |-> None]

\* locals of run() before its first statement
InitRun ==
    [pc |-> "idle", state |-> DefaultState, read |-> "none", loaded_sig |-> "",
     store_at_start |-> None, persisted_at_start |-> {},
     object_at_read |-> None, overlapped |-> FALSE,
     read_ok |-> FALSE, jar |-> EmptyJar, html |-> LoginRequired, logged_in |-> FALSE,
     compared |-> FALSE,
     count |-> 0, ids |-> <<>>, sig |-> "", changed |-> FALSE, posted |-> FALSE,
     ops |-> <<>>, sent |-> None, err |-> "", response |-> NoResponse]

Terminal == {"done", "failed", "panicked"}

\* a trigger whose run() has begun and not ended
Active(rr) == rr.pc \notin Terminal \cup {"idle"}

EnvNames == {"BUCKET_NAME", "AWBW_USERNAME", "AWBW_PASSWORD", "DISCORD_WEBHOOK_URL"}

\* the deployments: every variable set, or one of them missing
Environments ==
    {[n \in EnvNames |-> TRUE]} \cup {[n \in EnvNames |-> n # m] : m \in EnvNames}

Init ==
    /\ store = None
    /\ env \in Environments
    /\ run = [r \in RunIds |-> InitRun]
    /\ persisted = {}
    /\ owed = {}
    /\ call = [fn |-> "none"]

-----------------------------------------------------------------------------
(* run(): one action per awaited call or block of local statements *)

\* `?` and the final Ok(..): the trigger ends with the result
Finish(rr, res) ==
    [rr EXCEPT !.pc = IF res.ok THEN "done" ELSE "failed",
               !.err = IF res.ok THEN "" ELSE res.err,
               !.response = run_handler(res)]

\* the `?` operator: carry on at `next` or end the run with the error
Try(rr, res, next) ==
    IF res.ok THEN [rr EXCEPT !.pc = next] ELSE Finish(rr, res)

Log(rr, op) == [rr EXCEPT !.ops = Append(@, op)]

\* POST /run arrives; line 58 reads BUCKET_NAME
Start(r) ==
    /\ run[r].pc \in Terminal \cup {"idle"}
    /\ LET fresh == [InitRun EXCEPT !.store_at_start = store,
                                    !.persisted_at_start = persisted]
           bucket == IF env.BUCKET_NAME THEN Ok("bucket")
                     ELSE Err("BUCKET_NAME env missing")
           others == {o \in RunIds \ {r} : Active(run[o])}
       IN  run' = [o \in RunIds |->
                     IF o = r
                     THEN Try([fresh EXCEPT !.overlapped = others # {}], bucket, "read")
                     ELSE IF o \in others THEN [run[o] EXCEPT !.overlapped = TRUE]
                     ELSE run[o]]
    /\ UNCHANGED <<store, env, persisted, owed, call>>

\* lines 61-70: load the state, build the jar from it
ReadState(r) ==
    /\ run[r].pc = "read"
    /\ \E answer \in ReadAnswers :
          LET res == gcs_read_state(answer, store)
              state == unwrap_or_default(res)
          IN  run' = [run EXCEPT ![r] =
                        [Log(@, "read_" \o answer) EXCEPT
                            !.pc = "client", !.state = state, !.read = answer,
                            !.read_ok = res.ok, !.loaded_sig = state.sig,
                            !.object_at_read = store,
                            !.jar = load_jar(state.cookies_json)]]
    /\ UNCHANGED <<store, env, persisted, owed, call>>

\* lines 72-75: Client::builder()...build()?
BuildClient(r) ==
    /\ run[r].pc = "client"
    /\ \E built \in BOOLEAN :
          LET res == IF built THEN Ok("client") ELSE Err("client build failed")
          IN  run' = [run EXCEPT ![r] = Try(@, res, "fetch1")]
    /\ UNCHANGED <<store, env, persisted, owed, call>>

\* what the site answers to the GET: transport failure, the login-required
\* body, or the page it renders now
FetchAnswers ==
    {[kind |-> "error", body |-> LoginRequired],
     [kind |-> "login_required", body |-> LoginRequired]}
    \cup {[kind |-> "page", body |-> p] : p \in SitePages}

fetch_awbw_page(answer) ==
    IF answer.kind = "error" THEN Err("fetch failed") ELSE Ok(answer.body)

\* !html.contains("You must be logged in")
logged_in_of(html) == ~html.marker

\* lines 77-80
Fetch1(r) ==
    /\ run[r].pc = "fetch1"
    /\ \E answer \in FetchAnswers :
          LET res == fetch_awbw_page(answer)
              rr == Log(run[r], "fetch_" \o answer.kind)
          IN  run' = [run EXCEPT ![r] =
                        IF res.ok
                        THEN [rr EXCEPT !.html = res.val[1],
                                        !.logged_in = logged_in_of(res.val[1]),
                                        !.pc = IF logged_in_of(res.val[1])
                                               THEN "extract" ELSE "creds"]
                        ELSE Finish(rr, res)]
    /\ UNCHANGED <<store, env, persisted, owed, call>>

\* lines 83-84
Credentials(r) ==
    /\ run[r].pc = "creds"
    /\ LET res == IF ~env.AWBW_USERNAME THEN Err("AWBW_USERNAME env missing")
                  ELSE IF ~env.AWBW_PASSWORD THEN Err("AWBW_PASSWORD env missing")
                  ELSE Ok("credentials")
       IN  run' = [run EXCEPT ![r] = Try(@, res, "login")]
    /\ UNCHANGED <<store, env, persisted, owed, call>>

\* login_awbw: GET of the form, POST of the form; the body of the answer is
\* only logged
LoginAnswers == {"get_error", "post_error", "rejected", "accepted"}

login_awbw(answer) ==
    CASE answer = "get_error" -> Err("login page fetch failed")
      [] answer = "post_error" -> Err("login post failed")
      [] OTHER -> Ok("login")

\* line 85
Login(r) ==
    /\ run[r].pc = "login"
    /\ \E answer \in LoginAnswers :
          LET res == login_awbw(answer)
              rr == IF answer = "get_error" THEN Log(run[r], "login_get_error")
                    ELSE Log(Log(run[r], "login_get"), "login_post_" \o answer)
          IN  run' = [run EXCEPT ![r] =
                        Try([rr EXCEPT !.jar = IF answer = "accepted"
                                               THEN SessionJar ELSE @],
                            res, "fetch2")]
    /\ UNCHANGED <<store, env, persisted, owed, call>>

AfterRefetchUnchecked(logged_in) == Ok("page")

\* lines 89-91
AfterRefetch(logged_in) ==
    IF logged_in THEN Ok("page")
    ELSE Err("Login failed: still not logged in after POST")

\* lines 87-92
Fetch2(r) ==
    /\ run[r].pc = "fetch2"
    /\ \E answer \in FetchAnswers :
          LET res == fetch_awbw_page(answer)
              rr == Log(run[r], "fetch_" \o answer.kind)
          IN  run' = [run EXCEPT ![r] =
                        IF res.ok
                        THEN Try([rr EXCEPT !.html = res.val[1],
                                            !.logged_in = logged_in_of(res.val[1])],
                                 AfterRefetch(logged_in_of(res.val[1])), "extract")
                        ELSE Finish(rr, res)]
    /\ UNCHANGED <<store, env, persisted, owed, call>>

\* lines 98-99
Extract(r) ==
    /\ run[r].pc = "extract"
    /\ \E out \in extract_turn_info(run[r].html) :
          run' = [run EXCEPT ![r] =
                    IF out.panic
                    THEN [@ EXCEPT !.pc = "panicked", !.err = "attempt to add with overflow",
                                   !.response = ConnectionClosed]
                    ELSE [@ EXCEPT !.pc = "compare", !.count = out.count, !.ids = out.ids,
                                   !.sig = make_signature(out.count, out.ids)]]
    /\ UNCHANGED <<store, env, persisted, owed, call>>

\* lines 101-105
Compare(r) ==
    /\ run[r].pc = "compare"
    /\ \E serialized \in BOOLEAN :
          LET changed == Changed(run[r].state.sig, run[r].sig)
              res == IF serialized THEN Ok(save_cookie_store_json(run[r].jar))
                     ELSE Err("cookie store serialize failed")
              rr == [run[r] EXCEPT !.compared = TRUE, !.changed = changed,
                                   !.state.sig = run[r].sig,
                                   !.state.count = Some(run[r].count),
                                   !.state.cookies_json = IF res.ok THEN res.val ELSE @]
          IN  /\ run' = [run EXCEPT ![r] = Try(rr, res, "write")]
              /\ owed' = IF changed THEN owed \cup {run[r].sig} ELSE owed
    /\ UNCHANGED <<store, env, persisted, call>>

WriteAnswers == {"ok", "error"}

\* gcs_write_state: token or transport failure and non-2xx are errors
gcs_write_state(answer) ==
    IF answer = "ok" THEN Ok("written") ELSE Err("gcs write failed")

\* a write made only when the object is the one the run has read
write_if_unchanged(object, loaded) == object = loaded

\* lines 279-282: the upload URL carries the object's name and nothing about
\* the object read at line 61: the bucket is asked for no precondition
write_precondition(object, loaded) == TRUE

AfterWriteIgnored(res) == Ok("written")

\* the `?` at line 107
AfterWrite(res) == res

\* line 107
Write(r) ==
    /\ run[r].pc = "write"
    /\ \E answer \in WriteAnswers :
          LET given == IF write_precondition(store, run[r].object_at_read)
                       THEN answer ELSE "precondition_failed"
              res == gcs_write_state(given)
          IN  /\ run' = [run EXCEPT ![r] =
                            Try(Log(@, "write_" \o given), AfterWrite(res), "notify")]
              /\ store' = IF given = "ok" THEN Some(run[r].state) ELSE store
              /\ persisted' = IF given = "ok" THEN persisted \cup {run[r].state.sig}
                              ELSE persisted
    /\ UNCHANGED <<env, owed, call>>

PostAnswers == {"2xx", "non_2xx", "error"}

post_discord_unchecked(answer) ==
    IF answer = "error" THEN Err("webhook transport failed") ELSE Ok("posted")

\* post_discord: transport failure and non-2xx are errors
post_discord(answer) ==
    CASE answer = "2xx" -> Ok("posted")
      [] answer = "non_2xx" -> Err("Discord webhook failed")
      [] OTHER -> Err("webhook transport failed")

ShouldNotifyAlways(changed) == TRUE

\* line 110: if changed
ShouldNotify(changed) == changed

\* lines 109-124, no change detected
Skip(r) ==
    /\ run[r].pc = "notify"
    /\ ~ShouldNotify(run[r].changed)
    /\ run' = [run EXCEPT ![r] =
                 Finish(@, Ok(RunResponse(@.changed, @.count, @.logged_in, FALSE)))]
    /\ UNCHANGED <<store, env, persisted, owed, call>>

\* lines 109-124, change detected
Notify(r) ==
    /\ run[r].pc = "notify"
    /\ ShouldNotify(run[r].changed)
    /\ store' = store
    /\ IF ~env.DISCORD_WEBHOOK_URL
       THEN /\ run' = [run EXCEPT ![r] =
                         Finish(@, Err("DISCORD_WEBHOOK_URL env missing"))]
            /\ UNCHANGED owed
       ELSE \E answer \in PostAnswers :
              LET res == post_discord(answer)
                  msg == build_discord_message(run[r].count, run[r].ids)
                  rr == Log(run[r], "post_" \o answer)
              IN  /\ run' = [run EXCEPT ![r] =
                                IF res.ok
                                THEN Finish([rr EXCEPT !.posted = TRUE, !.sent = Some(msg)],
                                            Ok(RunResponse(rr.changed, rr.count,
                                                           rr.logged_in, TRUE)))
                                ELSE Finish(rr, res)]
                  /\ owed' = IF answer = "2xx" THEN owed \ {run[r].sig} ELSE owed
    /\ UNCHANGED <<env, persisted, call>>

Step(r) ==
    \/ Start(r)
    \/ ReadState(r)
    \/ BuildClient(r)
    \/ Fetch1(r)
    \/ Credentials(r)
    \/ Login(r)
    \/ Fetch2(r)
    \/ Extract(r)
    \/ Compare(r)
    \/ Write(r)
    \/ Skip(r)
    \/ Notify(r)

\* triggers arrive one after the other
Next == \E r \in SeqRuns : Step(r)

Spec == Init /\ [][Next]_vars

\* a run completes
Completed == \E r \in SeqRuns : (Skip(r) \/ Notify(r)) /\ run'[r].pc = "done"

\* the webhook accepts a post
Delivered == \E r \in SeqRuns : Notify(r) /\ run'[r].posted

\* the scheduler keeps triggering and every awaited call returns; failures
\* are transient, so that runs complete again and again, and the webhook,
\* when posted to again and again, accepts again and again
FairSpec ==
    /\ Spec
    /\ WF_vars(Next)
    /\ []<><<Completed>>_vars
    /\ SF_vars(Delivered)

-----------------------------------------------------------------------------
(* Observations on a run *)

HasOp(rr, op) == \E i \in DOMAIN rr.ops : rr.ops[i] = op

PostOps == {"post_2xx", "post_non_2xx", "post_error"}

Posts(rr) == {i \in DOMAIN rr.ops : rr.ops[i] \in PostOps}

\* the signatures the pages of the site can give
SiteSigs ==
    {make_signature(out.count, out.ids) :
        out \in UNION {extract_turn_info(p) : p \in SitePages}}

-----------------------------------------------------------------------------
(* C1: persist-before-notify.  In every run a webhook post is attempted    *)
(* only after the write of the state has succeeded, and a run whose write  *)
(* fails ends as failed, with the write as its last operation and no post. *)
PersistBeforeNotify ==
    \A r \in RunIds :
        /\ \A i \in Posts(run[r]) :
              \E j \in 1..(i - 1) : run[r].ops[j] = "write_ok"
        /\ HasOp(run[r], "write_error") =>
              /\ run[r].pc = "failed"
              /\ run[r].response.status = 500
              /\ run[r].ops[Len(run[r].ops)] = "write_error"
              /\ Posts(run[r]) = {}

\* a run that detected a change and whose write failed
PersistBeforeNotifyWitness ==
    \E r \in RunIds : run[r].changed /\ HasOp(run[r], "write_error")

-----------------------------------------------------------------------------
(* C4: change detection.  Once a run has compared, changed is exactly      *)
(* (stored # "" and stored # new), stored being the signature of the state *)
(* loaded at the start of the run; an empty stored signature and an equal  *)
(* one both give changed = false.                                          *)
ChangeDetection ==
    \A r \in RunIds :
        run[r].compared =>
            /\ run[r].changed =
                  (run[r].loaded_sig # "" /\ run[r].loaded_sig # run[r].sig)
            /\ run[r].loaded_sig = "" => ~run[r].changed
            /\ run[r].loaded_sig = run[r].sig => ~run[r].changed

\* a run that loaded a non-empty signature and computed a different one
ChangeDetectionWitness ==
    \E r \in RunIds :
        /\ run[r].compared
        /\ run[r].loaded_sig \notin {"", run[r].sig}
        /\ run[r].changed

-----------------------------------------------------------------------------
(* C5: a state read that fails for another reason than "not found" ends    *)
(* the run as failed, the read being its only operation: no fetch, no      *)
(* write, no post.                                                         *)
ReadFailureIsFatal ==
    \A r \in RunIds :
        run[r].read = "error" =>
            /\ run[r].pc = "failed"
            /\ run[r].response.status = 500
            /\ run[r].ops = <<"read_error">>

-----------------------------------------------------------------------------
(* C6: cold start never notifies.  When the bucket answers "not found" the *)
(* load is not an error and gives the default state with the empty         *)
(* signature; the run makes no post, and when it completes it has written  *)
(* the newly computed signature to the bucket.                             *)
ColdStartNeverNotifies ==
    \A r \in RunIds :
        run[r].read = "not_found" =>
            /\ run[r].read_ok
            /\ run[r].loaded_sig = ""
            /\ ~run[r].changed
            /\ Posts(run[r]) = {}
            /\ run[r].pc = "done" =>
                  /\ ~run[r].posted
                  /\ HasOp(run[r], "write_ok")
                  /\ store # None
                  /\ store[1].sig = run[r].sig
                  /\ run[r].sig # ""

\* a cold start that completed on a page that lists games
ColdStartWitness ==
    \E r \in RunIds :
        /\ run[r].read = "not_found"
        /\ run[r].pc = "done"
        /\ run[r].ids # <<>>

-----------------------------------------------------------------------------
(* C7: authentication failure is fatal.  A run fetches at most twice and   *)
(* submits the login form at most once; when both fetches show the         *)
(* unauthenticated marker the run has logged in exactly once between them  *)
(* and ends as failed right after the second fetch, without extracting,    *)
(* writing or posting.                                                     *)
Fetches(rr) == {i \in DOMAIN rr.ops : rr.ops[i] \in {"fetch_error", "fetch_login_required", "fetch_page"}}

LoginSubmits(rr) ==
    {i \in DOMAIN rr.ops :
        rr.ops[i] \in {"login_post_post_error", "login_post_rejected", "login_post_accepted"}}

MarkerFetches(rr) == {i \in DOMAIN rr.ops : rr.ops[i] = "fetch_login_required"}

AuthenticationFailureIsFatal ==
    \A r \in RunIds :
        /\ Cardinality(Fetches(run[r])) <= 2
        /\ Cardinality(LoginSubmits(run[r])) <= 1
        /\ Cardinality(MarkerFetches(run[r])) = 2 =>
              /\ run[r].pc = "failed"
              /\ run[r].err = "Login failed: still not logged in after POST"
              /\ run[r].response.status = 500
              /\ ~run[r].compared
              /\ Len(run[r].ops) = 5
              /\ run[r].ops[2] = "fetch_login_required"
              /\ run[r].ops[3] = "login_get"
              /\ run[r].ops[4] \in {"login_post_rejected", "login_post_accepted"}
              /\ run[r].ops[5] = "fetch_login_required"

\* a run whose page still showed the marker after the login
AuthenticationFailureWitness ==
    \E r \in RunIds : Cardinality(MarkerFetches(run[r])) = 2

-----------------------------------------------------------------------------
(* C8: notification failure is surfaced after persistence.  When the       *)
(* webhook answers non-2xx the run has detected a change, ends as failed   *)
(* with an empty 500 (posted never true), and the bucket holds the state   *)
(* with the new signature written by this run.                             *)
NotificationFailureAfterPersist ==
    \A r \in RunIds :
        HasOp(run[r], "post_non_2xx") =>
            /\ run[r].changed
            /\ run[r].pc = "failed"
            /\ run[r].err = "Discord webhook failed"
            /\ run[r].response = [status |-> 500, body |-> None]
            /\ ~run[r].posted
            /\ HasOp(run[r], "write_ok")
            /\ store = Some(run[r].state)
            /\ store[1].sig = run[r].sig

\* a run whose webhook post was answered non-2xx
NotificationFailureWitness ==
    \E r \in RunIds : HasOp(run[r], "post_non_2xx")

-----------------------------------------------------------------------------
(* C9: the trigger is all-or-nothing.  A run that completed answered 200   *)
(* with a Run Result with ok = true; a run that ended otherwise, at        *)
(* whatever point, answered 500 with no body.                              *)
AllOrNothingResponse ==
    \A r \in RunIds :
        /\ run[r].pc = "done" =>
              /\ run[r].response.status = 200
              /\ run[r].response.body # None
              /\ run[r].response.body[1].ok
        /\ run[r].pc \in Terminal \ {"done"} =>
              run[r].response = [status |-> 500, body |-> None]

-----------------------------------------------------------------------------
(* C2: no notification loss, as claimed: when a run has detected a change  *)
(* and its post failed or the webhook URL was missing, the notification    *)
(* for that signature is eventually delivered to the webhook, by a later   *)
(* run.                                                                    *)
NotifyFailed(s) ==
    \E r \in RunIds :
        /\ run[r].changed
        /\ run[r].sig = s
        /\ run[r].pc = "failed"
        /\ HasOp(run[r], "write_ok")

-----------------------------------------------------------------------------
(* C3: no duplicate notifications, as claimed: a run that observes a       *)
(* signature some earlier run has persisted computes changed = false and   *)
(* makes no post.                                                          *)
NeverRenotifyPersisted ==
    \A r \in RunIds :
        (run[r].compared /\ run[r].sig \in run[r].persisted_at_start) =>
            /\ ~run[r].changed
            /\ Posts(run[r]) = {}

(* C3, amended: a run that starts while the bucket holds signature s and   *)
(* observes a page with signature s computes changed = false and makes no  *)
(* post, also when the post of the run that persisted s failed.            *)
NoRenotifyWhileStored ==
    \A r \in RunIds :
        (/\ run[r].compared
         /\ run[r].store_at_start # None
         /\ run[r].store_at_start[1].sig = run[r].sig) =>
            /\ ~run[r].changed
            /\ Posts(run[r]) = {}
            /\ ~run[r].posted

\* a run that read from the bucket the signature it then observed, the post
\* for that signature having failed before
NoRenotifyWitness ==
    \E r \in RunIds :
        /\ run[r].compared
        /\ run[r].read = "ok"
        /\ run[r].store_at_start # None
        /\ run[r].store_at_start[1].sig = run[r].sig
        /\ run[r].sig \in owed
        /\ run[r].pc \in Terminal

-----------------------------------------------------------------------------
(* build_discord_message applied to bounded inputs *)

MsgIdValues == {1, 2}

MsgInputs ==
    {[fn |-> "build_discord_message", count |-> c, ids |-> ids, out |-> None] :
        c \in 0..MaxMsgCount,
        ids \in UNION {[1..n -> MsgIdValues] : n \in 0..MaxMsgIds}}

MsgInit ==
    /\ store = None
    /\ env = [n \in EnvNames |-> TRUE]
    /\ run = [r \in RunIds |-> InitRun]
    /\ persisted = {}
    /\ owed = {}
    /\ call \in MsgInputs

BuildMessage ==
    /\ call.out = None
    /\ call' = [call EXCEPT !.out = Some(build_discord_message(call.count, call.ids))]
    /\ UNCHANGED <<store, env, run, persisted, owed>>

MsgNext == BuildMessage

MsgSpec == MsgInit /\ [][MsgNext]_vars

Min(a, b) == IF a < b THEN a ELSE b

(* C10: message formatting.  The message is the fixed "no pending" message *)
(* iff count = 0 and ids is empty; otherwise it is the header with count   *)
(* (and the aggregate link), then the links of the first min(5, |ids|) ids *)
(* in the order given, then "+K more" with K = |ids| - 5 iff |ids| > 5,    *)
(* and nothing else.                                                       *)
MessageFormat ==
    (call.fn = "build_discord_message" /\ call.out # None) =>
        LET m == call.out[1]
            n == Len(call.ids)
            k == Min(5, n)
        IN  /\ (m = NoPendingMessage) <=> (call.count = 0 /\ n = 0)
            /\ m # NoPendingMessage =>
                  /\ m[1] = [part |-> "header", count |-> call.count]
                  /\ Len(m) = 1 + k + (IF n > 5 THEN 1 ELSE 0)
                  /\ \A i \in 1..k : m[1 + i] = [part |-> "link", id |-> call.ids[i]]
                  /\ n > 5 => m[Len(m)] = [part |-> "more", k |-> n - 5]
                  /\ n <= 5 => \A i \in DOMAIN m : m[i].part # "more"

\* a message for more than five ids
MessageFormatWitness ==
    /\ call.fn = "build_discord_message"
    /\ call.out # None
    /\ Len(call.ids) > 5
    /\ call.ids[1] # call.ids[2]

-----------------------------------------------------------------------------
(* extract_turn_info and make_signature applied to bounded inputs *)

\* the variables of the run, at rest
AtRest ==
    /\ store = None
    /\ env = [n \in EnvNames |-> TRUE]
    /\ run = [r \in RunIds |-> InitRun]
    /\ persisted = {}
    /\ owed = {}

SeqsUpTo(values, n) == UNION {[1..k -> values] : k \in 0..n}

Range(s) == {s[i] : i \in DOMAIN s}

\* labels: absent, small, the largest u32, and digits that do not fit u32
LabelValues == {Absent, 0, 1, U32Max, U32Max + 1}

\* link ids: small, the largest u32, and digits that do not fit u32
LinkValues == {1, 2, U32Max, U32Max + 1}

ExtractInputs ==
    {[fn |-> "extract_turn_info", html |-> Page(t, st, l), out |-> None] :
        t \in LabelValues, st \in LabelValues, l \in SeqsUpTo(LinkValues, MaxLinks)}

ExtractInit == AtRest /\ call \in ExtractInputs

ExtractPage ==
    /\ call.out = None
    /\ \E o \in extract_turn_info(call.html) : call' = [call EXCEPT !.out = Some(o)]
    /\ UNCHANGED <<store, env, run, persisted, owed>>

ExtractNext == ExtractPage

ExtractSpec == ExtractInit /\ [][ExtractNext]_vars

\* the count a label shows, 0 when the label is absent
LabelCount(label) == IF label = Absent THEN 0 ELSE label

StrictlyAscending(s) == \A i \in 1..(Len(s) - 1) : s[i] < s[i + 1]

(* C11: extraction canonical form.  For every page, extract returns ids    *)
(* strictly ascending (so without duplicates) that are exactly the ids of  *)
(* the links of the page, and a count equal to the sum of the counts of    *)
(* the two labels, each 0 when absent.                                     *)
ExtractCanonicalForm ==
    (call.fn = "extract_turn_info" /\ call.out # None) =>
        LET o == call.out[1]
        IN  /\ ~o.panic
            /\ StrictlyAscending(o.ids)
            /\ Range(o.ids) = Range(call.html.links)
            /\ o.count = LabelCount(call.html.turn) + LabelCount(call.html.start)

(* C18: extraction never fails.  For every page, also one whose two labels *)
(* carry counts near the top of the u32 range, extract does not panic and  *)
(* returns a count equal to the sum of the two label counts.               *)
ExtractNeverFails ==
    (/\ call.fn = "extract_turn_info"
     /\ call.out # None
     /\ call.html.turn \in 0..U32Max
     /\ call.html.start \in 0..U32Max) =>
        /\ ~call.out[1].panic
        /\ call.out[1].count = call.html.turn + call.html.start

-----------------------------------------------------------------------------
(* the signature of a page: extract_turn_info, then make_signature (lines  *)
(* 98-99), for two pages                                                   *)

PageSigLabels == {<<Absent, Absent>>, <<1, Absent>>, <<U32Max, 1>>}

PageSigLinkValues == {1, 2, U32Max + 1}

PageSigPages ==
    {Page(lb[1], lb[2], l) :
        lb \in PageSigLabels, l \in SeqsUpTo(PageSigLinkValues, MaxLinks)}

PageSigInputs ==
    {[fn |-> "page_signature", a |-> pa, b |-> pb, out |-> None] :
        pa \in PageSigPages, pb \in PageSigPages}

PageSigInit == AtRest /\ call \in PageSigInputs

\* lines 98-99 for one page
page_signature(html) ==
    {[panic |-> o.panic,
      sig |-> IF o.panic THEN "" ELSE make_signature(o.count, o.ids)] :
        o \in extract_turn_info(html)}

SignPages ==
    /\ call.out = None
    /\ \E oa \in page_signature(call.a), ob \in page_signature(call.b) :
          call' = [call EXCEPT !.out = Some([a |-> oa, b |-> ob])]
    /\ UNCHANGED <<store, env, run, persisted, owed>>

PageSigNext == SignPages

PageSigSpec == PageSigInit /\ [][PageSigNext]_vars

PageSigned ==
    /\ call.fn = "page_signature"
    /\ call.out # None
    /\ ~call.out[1].a.panic
    /\ ~call.out[1].b.panic

ParsedIds(html) == {id \in Range(html.links) : id <= U32Max}

-----------------------------------------------------------------------------
(* make_signature applied to two bounded inputs *)

SigIdValues == {1, 2, 11}

SigArgs ==
    {[count |-> c, ids |-> ids] :
        c \in 0..MaxSigCount, ids \in SeqsUpTo(SigIdValues, MaxLinks)}

SigInputs ==
    {[fn |-> "make_signature", a |-> x, b |-> y, out |-> None] :
        x \in SigArgs, y \in SigArgs}

SigInit == AtRest /\ call \in SigInputs

Sign ==
    /\ call.out = None
    /\ call' = [call EXCEPT !.out =
                  Some([a |-> make_signature(call.a.count, call.a.ids),
                        b |-> make_signature(call.b.count, call.b.ids)])]
    /\ UNCHANGED <<store, env, run, persisted, owed>>

SigNext == Sign

SigSpec == SigInit /\ [][SigNext]_vars

Signed == call.fn = "make_signature" /\ call.out # None

(* C13: signature input selection.  With ids non-empty the signature       *)
(* depends on ids alone: equal ids with different counts give equal        *)
(* signatures, hence changed = false between them.  With ids empty it      *)
(* depends on count alone: equal counts give equal signatures and          *)
(* different counts different ones.  A signature of a count never equals a *)
(* signature of ids.                                                       *)
SignatureInputSelection ==
    Signed =>
        LET a == call.a
            b == call.b
            siga == call.out[1].a
            sigb == call.out[1].b
        IN  /\ (a.ids # <<>> /\ a.ids = b.ids) =>
                  (siga = sigb /\ ~Changed(siga, sigb))
            /\ (a.ids = <<>> /\ b.ids = <<>>) => ((siga = sigb) <=> (a.count = b.count))
            /\ (a.ids = <<>> /\ b.ids # <<>>) => siga # sigb

\* equal non-empty ids with different counts
SignatureInputSelectionWitness ==
    /\ Signed
    /\ call.a.ids = <<1, 2>>
    /\ call.b.ids = <<1, 2>>
    /\ call.a.count # call.b.count

\* b is a rearrangement of a
Permuted(a, b) ==
    /\ Len(a) = Len(b)
    /\ \A v \in Range(a) \cup Range(b) :
          Cardinality({i \in DOMAIN a : a[i] = v}) = Cardinality({i \in DOMAIN b : b[i] = v})

(* C20: make_signature does not canonicalise.  Given the same ids in two   *)
(* different orders it returns two different signatures.                   *)
SignatureKeepsOrder ==
    (Signed /\ Permuted(call.a.ids, call.b.ids) /\ call.a.ids # call.b.ids) =>
        call.out[1].a # call.out[1].b

\* the same three ids in two orders
SignatureKeepsOrderWitness ==
    /\ Signed
    /\ call.a.ids = <<1, 2, 11>>
    /\ call.b.ids = <<1, 11, 2>>
    /\ call.out[1].a # call.out[1].b

-----------------------------------------------------------------------------
(* C14: every completed run has written the state exactly once, also when  *)
(* nothing changed and no login took place; the state written has the      *)
(* signature of the item set extracted in the run (never empty), the       *)
(* extracted count and a serialized session; a state in the bucket never   *)
(* has an empty signature.                                                 *)
Writes(rr) == {i \in DOMAIN rr.ops : rr.ops[i] \in {"write_ok", "write_error"}}

CompletedRunHasWritten ==
    /\ \A r \in RunIds :
          run[r].pc = "done" =>
              /\ Cardinality(Writes(run[r])) = 1
              /\ HasOp(run[r], "write_ok")
              /\ store = Some(run[r].state)
              /\ store[1].sig = make_signature(run[r].count, run[r].ids)
              /\ store[1].sig # ""
              /\ store[1].count = Some(run[r].count)
              /\ store[1].cookies_json # None
    /\ store # None => store[1].sig # ""

\* a completed run that detected no change and did not log in
CompletedRunWitness ==
    \E r \in RunIds :
        /\ run[r].pc = "done"
        /\ ~run[r].changed
        /\ LoginSubmits(run[r]) = {}
        /\ run[r].read = "ok"

-----------------------------------------------------------------------------
(* C15: no internal retries.  A run reads the state at most once, fetches  *)
(* the page at most twice, submits the login at most once, writes at most  *)
(* once and posts at most once, and an operation that fails is the last    *)
(* operation of the run, which ends as failed.                             *)
FailedOps ==
    {"read_error", "fetch_error", "login_get_error", "login_post_post_error",
     "write_error", "post_non_2xx", "post_error"}

Reads(rr) == {i \in DOMAIN rr.ops : rr.ops[i] \in {"read_ok", "read_not_found", "read_error"}}

NoInternalRetries ==
    \A r \in RunIds :
        /\ Cardinality(Reads(run[r])) <= 1
        /\ Cardinality(Fetches(run[r])) <= 2
        /\ Cardinality(LoginSubmits(run[r])) <= 1
        /\ Cardinality(Writes(run[r])) <= 1
        /\ Cardinality(Posts(run[r])) <= 1
        /\ \A i \in DOMAIN run[r].ops :
              run[r].ops[i] \in FailedOps =>
                  (i = Len(run[r].ops) /\ run[r].pc = "failed")

-----------------------------------------------------------------------------
(* C16: a run that fails before the state write (configuration missing,    *)
(* client not built, fetch or login transport failure, credentials         *)
(* missing, still unauthenticated after the login, session not             *)
(* serialized) ends as failed without a write and leaves the object in the *)
(* bucket as it was when the run started.                                  *)
BeforeWriteErrors ==
    {"BUCKET_NAME env missing", "client build failed", "fetch failed",
     "AWBW_USERNAME env missing", "AWBW_PASSWORD env missing",
     "login page fetch failed", "login post failed",
     "Login failed: still not logged in after POST",
     "cookie store serialize failed"}

FailsBeforeWrite(rr) ==
    \/ rr.err \in BeforeWriteErrors
    \/ HasOp(rr, "fetch_error")
    \/ HasOp(rr, "login_get_error")
    \/ HasOp(rr, "login_post_post_error")
    \/ Cardinality(MarkerFetches(rr)) = 2

FailureBeforeWriteKeepsState ==
    \A r \in RunIds :
        FailsBeforeWrite(run[r]) =>
            /\ run[r].pc = "failed"
            /\ Writes(run[r]) = {}
            /\ store = run[r].store_at_start

\* a run that found a state in the bucket, detected a change and failed to
\* serialize the session
FailureBeforeWriteWitness ==
    \E r \in RunIds :
        /\ run[r].err = "cookie store serialize failed"
        /\ run[r].changed
        /\ store # None

-----------------------------------------------------------------------------
(* C19: in every Run Result returned, posted = changed and loggedIn is     *)
(* true; posted = true only after a post the webhook accepted, and the     *)
(* page of the run does not show the unauthenticated marker.               *)
RunResultConsistent ==
    \A r \in RunIds :
        run[r].response.body # None =>
            LET result == run[r].response.body[1]
            IN  /\ run[r].pc = "done"
                /\ result.posted = result.changed
                /\ result.changed = run[r].changed
                /\ result.logged_in
                /\ result.posted => HasOp(run[r], "post_2xx")
                /\ ~run[r].html.marker

\* a result returned after a login and an accepted post
RunResultWitness ==
    \E r \in RunIds :
        /\ run[r].response.body # None
        /\ run[r].response.body[1].posted
        /\ LoginSubmits(run[r]) # {}

-----------------------------------------------------------------------------
(* Overlapping triggers: two POST /run requests served by the same process, *)
(* their awaited calls interleaved, over a bucket that a completed run has  *)
(* written before.                                                          *)

\* the objects a completed run leaves in the bucket
WrittenStates ==
    {[sig |-> make_signature(out.count, out.ids), count |-> Some(out.count),
      cookies_json |-> Some(save_cookie_store_json(jar))] :
        out \in {o \in UNION {extract_turn_info(p) : p \in SitePages} : ~o.panic},
        jar \in {SessionJar}}

ConcInit ==
    /\ store \in {Some(st) : st \in WrittenStates}
    /\ env = [n \in EnvNames |-> TRUE]
    /\ run = [r \in RunIds |-> InitRun]
    /\ persisted = {store[1].sig}
    /\ owed = {}
    /\ call = [fn |-> "none"]

\* each of the two triggers arrives once
ConcStart(r) == run[r].pc = "idle" /\ Start(r)

ConcStep(r) ==
    \/ ConcStart(r)
    \/ ReadState(r)
    \/ BuildClient(r)
    \/ Fetch1(r)
    \/ Credentials(r)
    \/ Login(r)
    \/ Fetch2(r)
    \/ Extract(r)
    \/ Compare(r)
    \/ Write(r)
    \/ Skip(r)
    \/ Notify(r)

ConcNext == \E r \in RunIds : ConcStep(r)

ConcSpec == ConcInit /\ [][ConcNext]_vars

\* the write of run r has just returned
WriteReturns(r) ==
    /\ run[r].pc = "write"
    /\ run'[r].pc # "write"

\* the two runs notified the same change: both read the same signature from
\* the bucket, computed the same new one and posted it
SameChangePosted(r1, r2) ==
    /\ r1 # r2
    /\ run[r1].loaded_sig = run[r2].loaded_sig
    /\ run[r1].sig = run[r2].sig
    /\ HasOp(run[r1], "post_2xx")
    /\ HasOp(run[r2], "post_2xx")

(* C17: overlapping runs are not coordinated.  A write made after the      *)
(* object changed since the run's read has the outcomes of any write: it   *)
(* is accepted, and the object becomes this run's state whatever another   *)
(* run has written meanwhile, or the bucket's own failure ends the run;    *)
(* the object changes in no other way, so it ends as the last writer's.    *)
(* Two runs post the same change only when they overlapped: of two runs    *)
(* one after the other, the later never posts the change the earlier one   *)
(* has written.                                                            *)
UncoordinatedWrites ==
    /\ [][\A r \in RunIds :
            WriteReturns(r) =>
                \/ /\ run'[r].pc = "notify"
                   /\ run'[r].ops = Append(run[r].ops, "write_ok")
                   /\ store' = Some(run[r].state)
                \/ /\ run'[r].pc = "failed"
                   /\ run'[r].ops = Append(run[r].ops, "write_error")
                   /\ store' = store]_vars
    /\ [][store' # store => \E r \in RunIds : WriteReturns(r)]_vars
    /\ [](\A r1, r2 \in RunIds :
            SameChangePosted(r1, r2) => (run[r1].overlapped /\ run[r2].overlapped))

\* two overlapping runs have read the same object, each has written over it
\* and both have posted the same change: the second write went over an
\* object that had changed since that run's read
DuplicateNotificationWitness ==
    \E r1, r2 \in RunIds :
        /\ SameChangePosted(r1, r2)
        /\ run[r1].pc = "done"
        /\ run[r2].pc = "done"
        /\ run[r1].object_at_read = run[r2].object_at_read
        /\ run[r1].object_at_read # store
        /\ run[r1].overlapped

====
